---- MODULE Spec2Model ----
(***************************************************************************)
(* Model of profit_calculator.cpp: the profit function, the profit matrix, *)
(* the probability weighting, the row reduction and the scan in main that  *)
(* selects the order quantity with the largest expected profit.            *)
(*                                                                         *)
(* Numbers.  Money is a whole number of dollars.  A probability is held in *)
(* hundredths (0.15 is 15), so an expected value and an expected profit    *)
(* are held in hundredths of a dollar (4,555,000.00 is 455500000).         *)
(* Sequences are 1-based where the vectors of the source are 0-based.      *)
(* All values of the model are far below 2^31 and 2^53, where the int and  *)
(* double arithmetic of the source is exact.  print_table and the other    *)
(* console output only format values already computed; of the output, the  *)
(* model keeps the final report (optimal order, its expected profit).      *)
(***************************************************************************)
EXTENDS Integers, Sequences, FiniteSets

VARIABLES pc, orders, demands, probabilities, profit_matrix, expected_values,
          expected_profits, i, max_profit, optimal_order, report

vars == <<pc, orders, demands, probabilities, profit_matrix, expected_values,
          expected_profits, i, max_profit, optimal_order, report>>

(* ------------------------------ bounds --------------------------------- *)

\* Longest orders, demands and probabilities vector drawn besides the defaults.
MaxLen == 2

\* Order quantities and demand levels drawn; -1 is the invalid (negative) one.
Quantities == {-1, 0, 1, 3}

\* Probabilities drawn, in hundredths.
ProbValues == {25, 75}

\* What a read past the end of the probabilities vector may yield, in
\* hundredths: 0 (what the g++ builds find in the slot after the vector's
\* storage) or any other value, of either sign.
Garbage == {-100, 0, 40}

SeqsUpTo(S, n) == UNION {[1..k -> S] : k \in 0..n}

(* --------------------------- calculate_profit -------------------------- *)

sale_price_first_half == 49000
sale_price_second_half == 15000
cost_per_unit == 25000

\* std::min and std::max on int.
min(a, b) == IF b < a THEN b ELSE a
max(a, b) == IF a < b THEN b ELSE a

calculate_profit_nosurplus(o, demand) ==
    sale_price_first_half * min(o, demand) - cost_per_unit * o

calculate_profit_costdemand(o, demand) ==
    sale_price_first_half * min(o, demand)
      + sale_price_second_half * max(0, o - demand)
      - cost_per_unit * min(o, demand)

calculate_profit(o, demand) ==
    LET revenue == sale_price_first_half * min(o, demand)
                     + sale_price_second_half * max(0, o - demand)
        total_cost == cost_per_unit * o
    IN  revenue - total_cost

(* ------------------------- create_profit_matrix ------------------------ *)

\* One row of the matrix: std::ranges::transform over demands with the
\* lambda calling calculate_profit(orders[i], demand), in order.
profit_row(o, ds) == [k \in 1..Len(ds) |-> calculate_profit(o, ds[k])]

create_profit_matrix_transposed(os, ds) ==
    [r \in 1..Len(ds) |-> [k \in 1..Len(os) |-> calculate_profit(os[k], ds[r])]]

create_profit_matrix(os, ds) ==
    [r \in 1..Len(os) |-> profit_row(os[r], ds)]

(* ---------------------- calculate_expected_values ---------------------- *)

\* One row of the weighting: a lambda built for this row, whose counter j
\* starts at 0 and advances by one per element.  The output row was allocated
\* with cols zero-initialised cells (cols is the width of the first row; the
\* rows of a matrix built by create_profit_matrix all have that width).
weight_row(row, probs, cols) ==
    [k \in 1..cols |-> IF k <= Len(row) THEN row[k] * probs[k] ELSE 0]

calculate_expected_values_running(matrix, probs) ==
    LET cols == Len(matrix[1])
    IN  [r \in 1..Len(matrix) |->
            [k \in 1..cols |->
                IF k <= Len(matrix[r])
                THEN matrix[r][k] * probs[((k - 1 + (r - 1)) % Len(probs)) + 1]
                ELSE 0]]

\* Defined when the matrix has a row and probs covers every column.
calculate_expected_values(matrix, probs) ==
    LET cols == Len(matrix[1])
    IN  [r \in 1..Len(matrix) |-> weight_row(matrix[r], probs, cols)]

(* ---------------------- calculate_expected_profits --------------------- *)

\* std::accumulate(first, last, init): left to right.
RECURSIVE accumulate(_, _, _)
accumulate(row, k, acc) ==
    IF k > Len(row) THEN acc ELSE accumulate(row, k + 1, acc + row[k])

calculate_expected_profits_skipfirst(values) ==
    [r \in 1..Len(values) |-> accumulate(values[r], 2, 0)]

calculate_expected_profits(values) ==
    [r \in 1..Len(values) |-> accumulate(values[r], 1, 0)]

(* -------------------------------- main --------------------------------- *)

\* std::numeric_limits<double>::lowest(): below every value the model reaches.
Lowest == -2000000000

DefaultQuantities == <<100, 150, 200, 250, 300>>
DefaultProbabilities == <<10, 15, 25, 30, 20>>

better_or_equal(candidate, best) == candidate >= best

\* The comparison of the scan.
better(candidate, best) == candidate > best

Init ==
    /\ pc = "start"
    /\ \/ /\ orders \in SeqsUpTo(Quantities, MaxLen)
          /\ demands \in SeqsUpTo(Quantities, MaxLen)
          /\ probabilities \in SeqsUpTo(ProbValues, MaxLen)
       \/ /\ orders = DefaultQuantities
          /\ demands = DefaultQuantities
          /\ probabilities = DefaultProbabilities
    /\ profit_matrix = <<>>
    /\ expected_values = <<>>
    /\ expected_profits = <<>>
    /\ i = 0
    /\ max_profit = Lowest
    /\ optimal_order = 0
    /\ report = <<>>

CreateProfitMatrix ==
    /\ pc = "start"
    /\ profit_matrix' = create_profit_matrix(orders, demands)
    /\ pc' = "weight"
    /\ UNCHANGED <<orders, demands, probabilities, expected_values,
                   expected_profits, i, max_profit, optimal_order, report>>

\* The call is defined: at least one row, a probability for every column.
CalculateExpectedValues ==
    /\ pc = "weight"
    /\ Len(profit_matrix) > 0
    /\ Len(probabilities) >= Len(profit_matrix[1])
    /\ expected_values' = calculate_expected_values(profit_matrix, probabilities)
    /\ pc' = "reduce"
    /\ UNCHANGED <<orders, demands, probabilities, profit_matrix,
                   expected_profits, i, max_profit, optimal_order, report>>

\* profit_matrix[0] of an empty vector is read for its size: undefined.  The
\* read faults, or yields some column count for a grid that has no rows.
CalculateExpectedValuesNoRow ==
    /\ pc = "weight"
    /\ Len(profit_matrix) = 0
    /\ \/ /\ pc' = "crashed"
          /\ UNCHANGED expected_values
       \/ /\ pc' = "reduce"
          /\ expected_values' = <<>>
    /\ UNCHANGED <<orders, demands, probabilities, profit_matrix,
                   expected_profits, i, max_profit, optimal_order, report>>

\* probabilities[j] is read past the end of the vector: undefined.  The read
\* faults, or each slot past the end holds some value (pad), which every row
\* reads.
CalculateExpectedValuesShort ==
    /\ pc = "weight"
    /\ Len(profit_matrix) > 0
    /\ Len(probabilities) < Len(profit_matrix[1])
    /\ \/ /\ pc' = "crashed"
          /\ UNCHANGED expected_values
       \/ /\ pc' = "reduce"
          /\ \E pad \in [1..(Len(profit_matrix[1]) - Len(probabilities)) -> Garbage] :
                expected_values' =
                    calculate_expected_values(profit_matrix, probabilities \o pad)
    /\ UNCHANGED <<orders, demands, probabilities, profit_matrix,
                   expected_profits, i, max_profit, optimal_order, report>>

CalculateExpectedProfits ==
    /\ pc = "reduce"
    /\ expected_profits' = calculate_expected_profits(expected_values)
    /\ max_profit' = Lowest
    /\ optimal_order' = 0
    /\ i' = 1
    /\ pc' = "scan"
    /\ UNCHANGED <<orders, demands, probabilities, profit_matrix,
                   expected_values, report>>

ScanStep ==
    /\ pc = "scan"
    /\ i <= Len(expected_profits)
    /\ IF better(expected_profits[i], max_profit)
       THEN /\ max_profit' = expected_profits[i]
            /\ optimal_order' = orders[i]
       ELSE UNCHANGED <<max_profit, optimal_order>>
    /\ i' = i + 1
    /\ UNCHANGED <<pc, orders, demands, probabilities, profit_matrix,
                   expected_values, expected_profits, report>>

Report ==
    /\ pc = "scan"
    /\ i > Len(expected_profits)
    /\ report' = <<optimal_order, max_profit>>
    /\ pc' = "done"
    /\ UNCHANGED <<orders, demands, probabilities, profit_matrix,
                   expected_values, expected_profits, i, max_profit, optimal_order>>

Next ==
    \/ CreateProfitMatrix
    \/ CalculateExpectedValues
    \/ CalculateExpectedValuesNoRow
    \/ CalculateExpectedValuesShort
    \/ CalculateExpectedProfits
    \/ ScanStep
    \/ Report

Spec == Init /\ [][Next]_vars

(* ------------------------------ claims --------------------------------- *)

Built == pc # "start"
Weighted == pc \in {"reduce", "scan", "done"}
Reduced == pc \in {"scan", "done"}

\* C1: for every order >= 0 and demand >= 0 the profit equals
\* 49000*min(order, demand) + 15000*max(0, order - demand) - 25000*order.
C1_ProfitFormula ==
    Built =>
        \A r \in 1..Len(orders) : \A c \in 1..Len(demands) :
            (orders[r] >= 0 /\ demands[c] >= 0) =>
                profit_matrix[r][c] =
                    49000 * (IF orders[r] <= demands[c] THEN orders[r] ELSE demands[c])
                      + 15000 * (IF orders[r] - demands[c] > 0
                                 THEN orders[r] - demands[c] ELSE 0)
                      - 25000 * orders[r]

\* C1 witness: a cell with a surplus (order 3, demand 1) has been computed.
C1_Witness ==
    /\ pc = "weight"
    /\ \E r \in 1..Len(orders) : \E c \in 1..Len(demands) :
          /\ orders[r] = 3
          /\ demands[c] = 1
          /\ profit_matrix[r][c] = 49000 + 30000 - 75000

\* C2: the scan reports the order at the first index whose expected profit is
\* the maximum, together with that maximum; a later equal value does not
\* replace it.
C2_FirstMaximumWins ==
    (pc = "done" /\ Len(expected_profits) > 0) =>
        \E k \in 1..Len(expected_profits) :
            /\ \A m \in 1..Len(expected_profits) : expected_profits[m] <= expected_profits[k]
            /\ \A m \in 1..(k - 1) : expected_profits[m] < expected_profits[k]
            /\ report = <<orders[k], expected_profits[k]>>

\* C2 witness: two different orders tie for the maximum and the first is reported.
C2_Witness ==
    /\ pc = "done"
    /\ Len(expected_profits) = 2
    /\ expected_profits[1] = expected_profits[2]
    /\ orders[1] # orders[2]
    /\ report = <<orders[1], expected_profits[1]>>

\* C3: the profit matrix has len(orders) rows of len(demands) columns each
\* (empty sequences included) and cell[i][j] = calculate_profit(orders[i], demands[j]).
C3_MatrixShapeAndCells ==
    Built =>
        /\ Len(profit_matrix) = Len(orders)
        /\ \A r \in 1..Len(orders) :
              /\ Len(profit_matrix[r]) = Len(demands)
              /\ \A c \in 1..Len(demands) :
                    profit_matrix[r][c] = calculate_profit(orders[r], demands[c])

\* C3 witness: a matrix of two rows and one column with different cells.
C3_Witness ==
    /\ pc = "weight"
    /\ Len(orders) = 2
    /\ Len(demands) = 1
    /\ Len(profit_matrix) = 2
    /\ profit_matrix[1][1] # profit_matrix[2][1]

\* C4: with at least one row and as many probabilities as columns, the
\* weighted grid has the matrix's shape and cell[i][j] = matrix[i][j] *
\* probabilities[j]; the probability index restarts at the first one on every row.
C4_WeightedCells ==
    (Weighted /\ Len(profit_matrix) > 0
              /\ Len(probabilities) = Len(profit_matrix[1])) =>
        /\ Len(expected_values) = Len(profit_matrix)
        /\ \A r \in 1..Len(profit_matrix) :
              /\ Len(expected_values[r]) = Len(profit_matrix[r])
              /\ \A c \in 1..Len(profit_matrix[r]) :
                    expected_values[r][c] = profit_matrix[r][c] * probabilities[c]

\* C4 witness: a second row weighted by two different probabilities.
C4_Witness ==
    /\ pc = "reduce"
    /\ Len(profit_matrix) = 2
    /\ Len(probabilities) = 2
    /\ Len(profit_matrix[2]) = 2
    /\ probabilities[1] # probabilities[2]
    /\ profit_matrix[2][1] # 0
    /\ expected_values[2][1] = profit_matrix[2][1] * probabilities[1]
    /\ expected_values[2][2] = profit_matrix[2][2] * probabilities[2]

\* The sum of a row, taken from its last cell back to its first.
RECURSIVE RowSum(_)
RowSum(row) == IF Len(row) = 0 THEN 0 ELSE RowSum(SubSeq(row, 1, Len(row) - 1)) + row[Len(row)]

\* C5: the row reduction returns one value per row, the sum of that row's
\* cells, and a row with zero columns sums to 0.
C5_RowSums ==
    Reduced =>
        /\ Len(expected_profits) = Len(expected_values)
        /\ \A r \in 1..Len(expected_values) :
              /\ expected_profits[r] = RowSum(expected_values[r])
              /\ Len(expected_values[r]) = 0 => expected_profits[r] = 0

\* C5 witness: a row of two non-zero cells has been summed.
C5_Witness ==
    /\ pc = "scan"
    /\ \E r \in 1..Len(expected_values) :
          /\ Len(expected_values[r]) = 2
          /\ expected_values[r][1] # 0
          /\ expected_values[r][2] # 0
          /\ expected_profits[r] = expected_values[r][1] + expected_values[r][2]

DefaultRun ==
    /\ orders = DefaultQuantities
    /\ demands = DefaultQuantities
    /\ probabilities = DefaultProbabilities

\* C6: on the default inputs the cell (order 100, demand 100) is 2,400,000,
\* the cell (order 300, demand 100) is 400,000, and the run reports order 250
\* with expected profit 4,555,000 (455500000 hundredths).
C6_DefaultRun ==
    DefaultRun =>
        /\ Built => (profit_matrix[1][1] = 2400000 /\ profit_matrix[5][1] = 400000)
        /\ Weighted => (expected_values[1][1] = 2400000 * 10
                        /\ expected_values[5][1] = 400000 * 10)
        /\ pc # "crashed"
        /\ pc = "done" => report = <<250, 455500000>>

\* C6 witness: the default run has reported its optimum.
C6_Witness ==
    /\ DefaultRun
    /\ pc = "done"
    /\ report = <<250, 455500000>>
    /\ expected_profits = <<240000000, 343000000, 420500000, 455500000, 439500000>>

\* C7: with a probability vector shorter or longer than the column count the
\* weighting reports DimensionMismatch instead of producing a grid or reading
\* past the end of the vector.
C7_DimensionMismatchReported ==
    (pc \notin {"start", "weight"} /\ Len(profit_matrix) > 0
        /\ Len(probabilities) # Len(profit_matrix[1])) =>
        pc = "DimensionMismatch"

\* C8: the scan fails with EmptyInput on an empty candidate set; it never
\* reports an optimal order quantity and expected profit for one.
C8_NoOptimumForEmptyInput ==
    (Len(orders) = 0 \/ (Reduced /\ Len(expected_profits) = 0)) =>
        (report = <<>> /\ pc # "done")

\* C9: a negative order or demand is rejected with InvalidArgument and yields
\* no numeric profit.
C9_NegativeRejected ==
    (Built /\ \E r \in 1..Len(orders) : \E c \in 1..Len(demands) :
                 orders[r] < 0 \/ demands[c] < 0) =>
        pc = "InvalidArgument"

\* C10: an empty orders sequence is a valid edge case: the weighting of the
\* zero-row grid returns a zero-row grid and reads no row of its input, so the
\* run cannot fault there.
C10_EmptyOrdersHandled ==
    (Len(orders) = 0 /\ pc \notin {"start", "weight"}) =>
        (pc # "crashed" /\ expected_values = <<>>)

====
